---- MODULE Spec2Model ----
(***************************************************************************)
(* Model of the company_inner_search_app Streamlit application:            *)
(*   components.py  - response shaping, citation formatting, log replay    *)
(*   utils.py       - icon selection, get_llm_response                     *)
(*   initialize.py  - session state, retriever build, file loading         *)
(*                                                                         *)
(* Python strings are sequences of one-character strings, so that suffix   *)
(* extraction, lower-casing, prefix tests and formatting are computed the  *)
(* way the code computes them; a non-ASCII character is written by its     *)
(* code point ("U+FF08" is the full-width left parenthesis).  An optional  *)
(* value (int | None) is a sequence of length at most one: None is << >>,  *)
(* the integer n is <<n>>.  A fixed text of the program (a message, a      *)
(* sentinel answer) is a one-element sequence holding its name.            *)
(***************************************************************************)
EXTENDS Integers, Sequences, FiniteSets, TLC

VARIABLES
    \* one call of _fmt_with_page_if_pdf and get_source_icon
    f_pc, f_path, f_page, f_out, f_icon,
    \* one turn's response shaping and its replay from the log
    pc,             \* "response" -> "shown" -> "logged" -> "replayed"
    mode,           \* st.session_state.mode
    chat_message,   \* the user's utterance of the turn
    llm_response,   \* [context |-> passages, answer |-> text]
    ui_live,        \* the st.* calls made while the turn was live
    content,        \* the dict returned by display_*_llm_response
    ui_replay,      \* the st.* calls of display_conversation_log, per message
    \* the session
    session_state,  \* st.session_state: messages, chat_history, session_id,
                    \* retriever (a key is present once it has been set)
    platform,       \* sys.platform
    logger_handlers,\* the application logger has its handler
    last_call,      \* the function called last
    raised,         \* the exception it raised, "none" when it returned
    init_calls,     \* calls of initialize / initialize_retriever so far
    loads,          \* calls of load_data_sources so far
    builds,         \* vector stores built so far
    \* one call of file_load
    l_pc, l_file, l_before, docs_all

fmtVars == <<f_pc, f_path, f_page, f_out, f_icon>>

shapeVars == <<pc, mode, chat_message, llm_response, ui_live, content,
               ui_replay>>

sessVars == <<platform, logger_handlers, last_call, raised, init_calls,
              loads, builds>>

loadVars == <<l_pc, l_file, l_before, docs_all>>

vars == <<fmtVars, shapeVars, session_state, sessVars, loadVars>>

-----------------------------------------------------------------------------
(* Python values and string primitives                                      *)

None == << >>

Some(n) == <<n>>

\* str.lower() on the characters the model uses
LowerChar(c) ==
    CASE c = "P" -> "p"
      [] c = "D" -> "d"
      [] c = "F" -> "f"
      [] c = "C" -> "c"
      [] c = "S" -> "s"
      [] c = "V" -> "v"
      [] OTHER -> c

Lower(s) == [i \in 1..Len(s) |-> LowerChar(s[i])]

\* str.rfind(c) + 1: the last position of c in s, 0 when c does not occur
RFind(s, c) ==
    LET hits == {i \in 1..Len(s) : s[i] = c}
    IN  IF hits = {} THEN 0 ELSE CHOOSE i \in hits : \A j \in hits : j <= i

\* str.startswith(prefix)
StartsWith(s, prefix) ==
    /\ Len(s) >= Len(prefix)
    /\ SubSeq(s, 1, Len(prefix)) = prefix

\* str(n) for a non-negative integer
Digit(d) == <<"0", "1", "2", "3", "4", "5", "6", "7", "8", "9">>[d + 1]

RECURSIVE IntToStr(_)
IntToStr(n) ==
    IF n < 10 THEN <<Digit(n)>>
    ELSE IntToStr(n \div 10) \o <<Digit(n % 10)>>

\* pathlib.PurePath.name: the final path component
PathName(path) == SubSeq(path, RFind(path, "/") + 1, Len(path))

\* pathlib.PurePath.suffix: name[i:] when the last dot is neither the first
\* nor the last character of the name, "" otherwise
PathSuffix(path) ==
    LET name == PathName(path)
        i    == RFind(name, ".")
    IN  IF 1 < i /\ i < Len(name) THEN SubSeq(name, i, Len(name)) ELSE << >>

DotPdf == <<".", "p", "d", "f">>

-----------------------------------------------------------------------------
(* components.py: _fmt_with_page_if_pdf                                     *)

\* faulty variant: the zero-based page is shown as it is
fmt_no_one_based(path, page) ==
    IF Lower(PathSuffix(path)) = DotPdf /\ page # None
    THEN path \o <<"U+FF08", "p", ".">> \o IntToStr(page[1]) \o <<"U+FF09">>
    ELSE path

fmt_with_page_if_pdf(path, page) ==
    IF Lower(PathSuffix(path)) = DotPdf /\ page # None
    THEN path \o <<"U+FF08", "p", ".">> \o IntToStr(page[1] + 1) \o <<"U+FF09">>
    ELSE path

-----------------------------------------------------------------------------
(* utils.py: get_source_icon                                                *)

LINK_SOURCE_ICON == "LINK_SOURCE_ICON"

DOC_SOURCE_ICON == "DOC_SOURCE_ICON"

get_source_icon(source) ==
    IF StartsWith(source, <<"h", "t", "t", "p">>)
    THEN LINK_SOURCE_ICON
    ELSE DOC_SOURCE_ICON

-----------------------------------------------------------------------------
(* Inputs of the pure functions: source strings built from a prefix, a      *)
(* stem and an ending, and page values                                      *)

MaxPage == 10

Prefixes ==
    { << >>,
      <<"d", "/">>,
      <<"h", "t", "t", "p">>,
      <<"h", "t", "t", "p", ":", "/", "/">>,
      <<"h", "t", "t", "p", "s", ":", "/", "/">> }

Stems == { << >>, <<"a">>, <<"a", ".", "b">>, <<"h", "t", "t">> }

Endings ==
    { << >>,
      <<".">>,
      <<".", "p", "d", "f">>,
      <<".", "P", "D", "F">>,
      <<".", "P", "d", "f">>,
      <<".", "p", "d", "f", "x">>,
      <<".", "p", "d">>,
      <<".", "d", "o", "c", "x">> }

SourceStrings == {p \o s \o e : p \in Prefixes, s \in Stems, e \in Endings}

PageValues == {None} \cup {Some(n) : n \in 0..MaxPage}

FmtIdle ==
    /\ f_pc = "idle"
    /\ f_path = << >>
    /\ f_page = None
    /\ f_out = << >>
    /\ f_icon = "none"

ShapeIdle ==
    /\ pc = "idle"
    /\ mode = "none"
    /\ chat_message = << >>
    /\ llm_response = [context |-> << >>, answer |-> << >>]
    /\ ui_live = << >>
    /\ content = [mode |-> "none"]
    /\ ui_replay = << >>

SessIdle ==
    /\ session_state = << >>
    /\ platform = "linux"
    /\ logger_handlers = FALSE
    /\ last_call = "none"
    /\ raised = "none"
    /\ init_calls = 0
    /\ loads = 0
    /\ builds = 0

LoadIdle ==
    /\ l_pc = "idle"
    /\ l_file = [path |-> << >>, units |-> << >>]
    /\ l_before = << >>
    /\ docs_all = << >>

FmtInit ==
    /\ f_pc = "input"
    /\ f_path \in SourceStrings
    /\ f_page \in PageValues
    /\ f_out = << >>
    /\ f_icon = "none"
    /\ ShapeIdle
    /\ SessIdle
    /\ LoadIdle

FmtCall ==
    /\ f_pc = "input"
    /\ f_out' = fmt_with_page_if_pdf(f_path, f_page)
    /\ f_pc' = "formatted"
    /\ UNCHANGED <<f_path, f_page, f_icon, shapeVars, session_state, sessVars,
                   loadVars>>

IconCall ==
    /\ f_pc = "formatted"
    /\ f_icon' = get_source_icon(f_path)
    /\ f_pc' = "done"
    /\ UNCHANGED <<f_path, f_page, f_out, shapeVars, session_state, sessVars,
                   loadVars>>

FmtNext == FmtCall \/ IconCall

SpecFmt == FmtInit /\ [][FmtNext]_vars

-----------------------------------------------------------------------------
(* constants.py (ct): the names components.py refers to                     *)

ANSWER_MODE_1 == "ANSWER_MODE_1"

ANSWER_MODE_2 == "ANSWER_MODE_2"

NO_DOC_MATCH_ANSWER == <<"NO_DOC_MATCH_ANSWER">>

INQUIRY_NO_MATCH_ANSWER == <<"INQUIRY_NO_MATCH_ANSWER">>

NO_DOC_MATCH_MESSAGE == <<"NO_DOC_MATCH_MESSAGE">>

-----------------------------------------------------------------------------
(* components.py: the shaping of one LLM response                           *)

\* doc.metadata.get("source", "")
MetaSource(doc) == IF "source" \in DOMAIN doc THEN doc.source ELSE << >>

\* doc.metadata.get("page") if "page" in doc.metadata else None
MetaPage(doc) == IF "page" \in DOMAIN doc THEN Some(doc.page) ELSE None

\* the st.* calls
Markdown(text) == [fn |-> "markdown", text |-> text]

Success(text, icon) == [fn |-> "success", text |-> text, icon |-> icon]

Info(text, icon) == [fn |-> "info", text |-> text, icon |-> icon]

Divider == [fn |-> "divider"]

MAIN_MESSAGE == <<"main_message">>

SUB_MESSAGE == <<"sub_message">>

SOURCE_MESSAGE == <<"message">>

\* f"##### {message}"
Heading(message) == <<"#", "#", "#", "#", "#", " ">> \o message

\* faulty variant: the set of shown sources is never extended
RECURSIVE sub_choices_no_shown_add(_, _)
sub_choices_no_shown_add(docs, shown) ==
    IF docs = << >> THEN << >>
    ELSE LET doc == Head(docs)
             fp  == MetaSource(doc)
         IN  IF fp = << >> \/ fp \in shown
             THEN sub_choices_no_shown_add(Tail(docs), shown)
             ELSE <<[source |-> fp, page_number |-> MetaPage(doc)]>>
                  \o sub_choices_no_shown_add(Tail(docs), shown)

\* display_search_llm_response, the loop over context[1:]
RECURSIVE sub_choices_loop(_, _)
sub_choices_loop(docs, shown) ==
    IF docs = << >> THEN << >>
    ELSE LET doc == Head(docs)
             fp  == MetaSource(doc)
         IN  IF fp = << >> \/ fp \in shown
             THEN sub_choices_loop(Tail(docs), shown)
             ELSE <<[source |-> fp, page_number |-> MetaPage(doc)]>>
                  \o sub_choices_loop(Tail(docs), shown \cup {fp})

\* the st.info call of each sub choice
SubInfos(subs) ==
    [i \in 1..Len(subs) |->
        Info(fmt_with_page_if_pdf(subs[i].source, subs[i].page_number),
             get_source_icon(subs[i].source))]

\* faulty variant: the primary citation is the passage of the last rank
search_main_doc_last(context) == context[Len(context)]

\* display_search_llm_response: main_doc
search_main_doc(context) == context[1]

\* display_search_llm_response: [ui |-> the st.* calls, content |-> the dict]
display_search_llm_response(resp) ==
    IF resp.context # << >> /\ resp.answer # NO_DOC_MATCH_ANSWER
    THEN LET main_doc         == search_main_doc(resp.context)
             main_file_path   == MetaSource(main_doc)
             main_page_number == MetaPage(main_doc)
             subs == sub_choices_loop(Tail(resp.context), {main_file_path})
             c0   == [mode |-> ANSWER_MODE_1,
                      main_message |-> MAIN_MESSAGE,
                      main_file_path |-> main_file_path]
             c1   == IF main_page_number # None
                     THEN c0 @@ [main_page_number |-> main_page_number[1]]
                     ELSE c0
             c2   == IF subs # << >>
                     THEN c1 @@ [sub_message |-> SUB_MESSAGE,
                                 sub_choices |-> subs]
                     ELSE c1
         IN  [ui |-> <<Markdown(MAIN_MESSAGE),
                       Success(fmt_with_page_if_pdf(main_file_path,
                                                    main_page_number),
                               get_source_icon(main_file_path))>>
                     \o (IF subs # << >>
                         THEN <<Markdown(SUB_MESSAGE)>> \o SubInfos(subs)
                         ELSE << >>),
              content |-> c2]
    ELSE [ui |-> <<Markdown(NO_DOC_MATCH_MESSAGE)>>,
          content |-> [mode |-> ANSWER_MODE_1,
                       answer |-> NO_DOC_MATCH_MESSAGE,
                       no_file_path_flg |-> TRUE]]

\* display_contact_llm_response, the loop over context:
\* the (formatted, icon) pair of every source shown
RECURSIVE file_info_loop(_, _)
file_info_loop(docs, seen) ==
    IF docs = << >> THEN << >>
    ELSE LET doc == Head(docs)
             fp  == MetaSource(doc)
         IN  IF fp = << >> \/ fp \in seen
             THEN file_info_loop(Tail(docs), seen)
             ELSE <<[formatted |-> fmt_with_page_if_pdf(fp, MetaPage(doc)),
                     icon |-> get_source_icon(fp)]>>
                  \o file_info_loop(Tail(docs), seen \cup {fp})

\* faulty variant: the source list is attached whatever the answer is
display_contact_always_sources(resp) ==
    LET shown == file_info_loop(resp.context, {})
    IN  [ui |-> <<Markdown(resp.answer), Divider,
                  Markdown(Heading(SOURCE_MESSAGE))>>
                \o [i \in 1..Len(shown) |->
                       Info(shown[i].formatted, shown[i].icon)],
         content |-> [mode |-> ANSWER_MODE_2,
                      answer |-> resp.answer,
                      message |-> SOURCE_MESSAGE,
                      file_info_list |->
                          [i \in 1..Len(shown) |-> shown[i].formatted]]]

\* display_contact_llm_response: [ui |-> the st.* calls, content |-> the dict]
display_contact_llm_response(resp) ==
    IF resp.answer # INQUIRY_NO_MATCH_ANSWER
    THEN LET shown == file_info_loop(resp.context, {})
         IN  [ui |-> <<Markdown(resp.answer), Divider,
                       Markdown(Heading(SOURCE_MESSAGE))>>
                     \o [i \in 1..Len(shown) |->
                            Info(shown[i].formatted, shown[i].icon)],
              content |-> [mode |-> ANSWER_MODE_2,
                           answer |-> resp.answer,
                           message |-> SOURCE_MESSAGE,
                           file_info_list |->
                               [i \in 1..Len(shown) |-> shown[i].formatted]]]
    ELSE [ui |-> <<Markdown(resp.answer)>>,
          content |-> [mode |-> ANSWER_MODE_2, answer |-> resp.answer]]

-----------------------------------------------------------------------------
(* components.py: the replay of the conversation log                        *)

\* faulty variant: the replay shows the stored zero-based page without formatting
render_search_message_raw_path(c) ==
    IF "no_file_path_flg" \in DOMAIN c
    THEN <<Markdown(c.answer)>>
    ELSE <<Markdown(c.main_message),
           Success(c.main_file_path, get_source_icon(c.main_file_path))>>
         \o (IF "sub_choices" \in DOMAIN c /\ c.sub_choices # << >>
             THEN <<Markdown(c.sub_message)>> \o SubInfos(c.sub_choices)
             ELSE << >>)

\* _render_search_message
render_search_message(c) ==
    IF "no_file_path_flg" \in DOMAIN c
    THEN <<Markdown(c.answer)>>
    ELSE LET main_path == c.main_file_path
             main_page == IF "main_page_number" \in DOMAIN c
                          THEN Some(c.main_page_number) ELSE None
         IN  <<Markdown(c.main_message),
               Success(fmt_with_page_if_pdf(main_path, main_page),
                       get_source_icon(c.main_file_path))>>
             \o (IF "sub_choices" \in DOMAIN c /\ c.sub_choices # << >>
                 THEN <<Markdown(c.sub_message)>> \o SubInfos(c.sub_choices)
                 ELSE << >>)

\* _render_contact_message
render_contact_message(c) ==
    <<Markdown(c.answer)>>
    \o (IF "file_info_list" \in DOMAIN c
        THEN <<Divider, Markdown(Heading(c.message))>>
             \o [i \in 1..Len(c.file_info_list) |->
                    Info(c.file_info_list[i],
                         get_source_icon(c.file_info_list[i]))]
        ELSE << >>)

\* display_conversation_log: the st.* calls made for one message
render_message(m) ==
    IF m.role = "user" THEN <<Markdown(m.content)>>
    ELSE IF m.content.mode = ANSWER_MODE_1
         THEN render_search_message(m.content)
         ELSE render_contact_message(m.content)

-----------------------------------------------------------------------------
(* One turn: the response is shaped, logged and replayed                    *)

MaxContext == 4

SrcA == <<"a", ".", "p", "d", "f">>

SrcB == <<"b", ".", "d", "o", "c", "x">>

SrcC == <<"h", "t", "t", "p", ":", "/", "/", "c", ".", "p", "d", "f">>

\* retrieved passages: the metadata the loaders attach
Passages ==
    { [source |-> SrcA, page |-> 2],
      [source |-> SrcA, page |-> 5],
      [source |-> SrcB],
      [source |-> SrcB, page |-> 1],
      [source |-> SrcC, page |-> 0],
      [source |-> SrcC] }

Contexts == UNION {[1..n -> Passages] : n \in 0..MaxContext}

Answers == {NO_DOC_MATCH_ANSWER, INQUIRY_NO_MATCH_ANSWER, <<"answer">>}

ShapeInit ==
    /\ pc = "response"
    /\ mode \in {ANSWER_MODE_1, ANSWER_MODE_2}
    /\ chat_message = <<"question">>
    /\ llm_response \in [context : Contexts, answer : Answers]
    /\ ui_live = << >>
    /\ content = [mode |-> "none"]
    /\ ui_replay = << >>
    /\ session_state = [messages |-> << >>, chat_history |-> << >>]
    /\ platform = "linux"
    /\ logger_handlers = FALSE
    /\ last_call = "none"
    /\ raised = "none"
    /\ init_calls = 0
    /\ loads = 0
    /\ builds = 0
    /\ FmtIdle
    /\ LoadIdle

DisplaySearch ==
    /\ pc = "response"
    /\ mode = ANSWER_MODE_1
    /\ LET r == display_search_llm_response(llm_response)
       IN  /\ ui_live' = r.ui
           /\ content' = r.content
    /\ pc' = "shown"
    /\ UNCHANGED <<mode, chat_message, llm_response, ui_replay, session_state,
                   fmtVars, sessVars, loadVars>>

DisplayContact ==
    /\ pc = "response"
    /\ mode # ANSWER_MODE_1
    /\ LET r == display_contact_llm_response(llm_response)
       IN  /\ ui_live' = r.ui
           /\ content' = r.content
    /\ pc' = "shown"
    /\ UNCHANGED <<mode, chat_message, llm_response, ui_replay, session_state,
                   fmtVars, sessVars, loadVars>>

\* main.py: the turn is pushed on st.session_state.messages
AppendMessages ==
    /\ pc = "shown"
    /\ session_state' =
          [session_state EXCEPT !.messages =
              @ \o <<[role |-> "user", content |-> chat_message],
                     [role |-> "assistant", content |-> content]>>]
    /\ pc' = "logged"
    /\ UNCHANGED <<mode, chat_message, llm_response, ui_live, content,
                   ui_replay, fmtVars, sessVars, loadVars>>

\* display_conversation_log, on the next rerun (the mode may have changed)
DisplayConversationLog ==
    /\ pc = "logged"
    /\ mode' \in {ANSWER_MODE_1, ANSWER_MODE_2}
    /\ ui_replay' = [i \in 1..Len(session_state.messages) |->
                         render_message(session_state.messages[i])]
    /\ pc' = "replayed"
    /\ UNCHANGED <<chat_message, llm_response, ui_live, content,
                   session_state, fmtVars, sessVars, loadVars>>

ShapeNext ==
    DisplaySearch \/ DisplayContact \/ AppendMessages \/ DisplayConversationLog

SpecShape == ShapeInit /\ [][ShapeNext]_vars

-----------------------------------------------------------------------------
(* Properties of the citation formatter and the icon (SpecFmt)              *)

EndsWith(s, tail) ==
    /\ Len(s) >= Len(tail)
    /\ SubSeq(s, Len(s) - Len(tail) + 1, Len(s)) = tail

\* the file name has a non-empty stem followed by ".pdf" in any letter case
HasPdfExtension(s) ==
    /\ Len(s) >= 5
    /\ \E e \in {<<x, p, d, f>> : x \in {"."}, p \in {"p", "P"},
                                  d \in {"d", "D"}, f \in {"f", "F"}} :
           EndsWith(s, e)
    /\ s[Len(s) - 4] # "/"

ReportPdf == <<"r", "e", "p", "o", "r", "t", ".", "p", "d", "f">>

NotesDocx == <<"n", "o", "t", "e", "s", ".", "d", "o", "c", "x">>

\* C4: _fmt_with_page_if_pdf returns source + "(p.{page+1})" (full-width
\* parentheses, one-based page) exactly when the source has a .pdf extension
\* in any letter case and a page is present, and the bare source otherwise;
\* report.pdf with page 0 gives "report.pdf(p.1)", notes.docx without a page
\* gives "notes.docx".
C4_FormatIffPdfAndPage ==
    /\ f_pc \in {"formatted", "done"} =>
          f_out = IF HasPdfExtension(f_path) /\ f_page # None
                  THEN f_path \o <<"U+FF08", "p", ".">>
                       \o IntToStr(f_page[1] + 1) \o <<"U+FF09">>
                  ELSE f_path
    /\ fmt_with_page_if_pdf(ReportPdf, Some(0))
          = ReportPdf \o <<"U+FF08", "p", ".", "1", "U+FF09">>
    /\ fmt_with_page_if_pdf(NotesDocx, None) = NotesDocx

\* an upper-case .PDF source with page 9 has been formatted as page 10
C4_Witness ==
    /\ f_pc = "formatted"
    /\ EndsWith(f_path, <<"a", ".", "P", "D", "F">>)
    /\ f_page = Some(9)
    /\ EndsWith(f_out, <<"F", "U+FF08", "p", ".", "1", "0", "U+FF09">>)

HttpScheme == <<"h", "t", "t", "p", ":", "/", "/">>

HttpsScheme == <<"h", "t", "t", "p", "s", ":", "/", "/">>

\* C9: get_source_icon returns the link icon exactly when the source begins
\* with http:// or https://, and the document icon for every other source.
C9_LinkIconIffHttpScheme ==
    f_pc = "done" =>
        /\ f_icon \in {LINK_SOURCE_ICON, DOC_SOURCE_ICON}
        /\ f_icon = LINK_SOURCE_ICON <=>
              (StartsWith(f_path, HttpScheme) \/ StartsWith(f_path, HttpsScheme))

-----------------------------------------------------------------------------
(* Properties of the response shaping (SpecShape)                           *)

Shaped == pc \in {"shown", "logged", "replayed"}

\* the ranks at which a source value occurs for the first time
FirstRanks(ctx) ==
    {i \in 1..Len(ctx) : \A j \in 1..(i - 1) : ctx[j].source # ctx[i].source}

RECURSIVE Ascending(_)
Ascending(S) ==
    IF S = {} THEN << >>
    ELSE LET m == CHOOSE x \in S : \A y \in S : x <= y
         IN  <<m>> \o Ascending(S \ {m})

\* one citation per distinct source, in the order of first occurrence, with
\* the page of that occurrence
ExpectedCitations(ctx) ==
    LET r == Ascending(FirstRanks(ctx))
    IN  [k \in 1..Len(r) |->
            [source |-> ctx[r[k]].source,
             page |-> IF "page" \in DOMAIN ctx[r[k]]
                      THEN <<ctx[r[k]].page>> ELSE << >>]]

\* the citations a search payload holds: the primary, then the sub_choices
SearchCitations(c) ==
    <<[source |-> c.main_file_path,
       page |-> IF "main_page_number" \in DOMAIN c
                THEN <<c.main_page_number>> ELSE << >>]>>
    \o (IF "sub_choices" \in DOMAIN c
        THEN [i \in 1..Len(c.sub_choices) |->
                 [source |-> c.sub_choices[i].source,
                  page |-> c.sub_choices[i].page_number]]
        ELSE << >>)

SearchMatch ==
    /\ Shaped
    /\ content.mode = ANSWER_MODE_1
    /\ llm_response.context # << >>
    /\ llm_response.answer # NO_DOC_MATCH_ANSWER

InquiryMatch ==
    /\ Shaped
    /\ content.mode = ANSWER_MODE_2
    /\ llm_response.answer # INQUIRY_NO_MATCH_ANSWER

\* C1: when the outcome is not a no-match, the citations of the response
\* (search: primary then sub_choices; inquiry: file_info_list) are exactly one
\* per distinct source of the retrieval result, in the order of first
\* occurrence, each with the page of its first occurrence.
C1_OneCitationPerSource ==
    /\ SearchMatch =>
          SearchCitations(content) = ExpectedCitations(llm_response.context)
    /\ InquiryMatch =>
          LET e == ExpectedCitations(llm_response.context)
          IN  content.file_info_list
                 = [k \in 1..Len(e) |->
                       fmt_with_page_if_pdf(e[k].source, e[k].page)]

\* an inquiry response over [X p, Y, X p'] with p # p' lists two sources
C1_Witness ==
    /\ InquiryMatch
    /\ pc = "shown"
    /\ Len(llm_response.context) = 3
    /\ llm_response.context[1].source = llm_response.context[3].source
    /\ llm_response.context[1] # llm_response.context[3]
    /\ llm_response.context[2].source # llm_response.context[1].source
    /\ Len(content.file_info_list) = 2

BestMatchExample ==
    <<[source |-> SrcA, page |-> 2], [source |-> SrcA, page |-> 5],
      [source |-> SrcB]>>

\* C2: in search mode with a match, the primary citation is the rank-0
\* passage (source and page) and no secondary citation has the primary's
\* source; for [P1(A,2), P2(A,5), P3(B)] the primary is A shown with p.3 and
\* the secondary list is exactly [B].
C2_PrimaryIsRankZero ==
    SearchMatch =>
        LET subs == IF "sub_choices" \in DOMAIN content
                    THEN content.sub_choices ELSE << >>
        IN  /\ content.main_file_path = llm_response.context[1].source
            /\ ("main_page_number" \in DOMAIN content)
                  = ("page" \in DOMAIN llm_response.context[1])
            /\ "main_page_number" \in DOMAIN content =>
                  content.main_page_number = llm_response.context[1].page
            /\ \A i \in 1..Len(subs) :
                  subs[i].source # content.main_file_path
            /\ llm_response.context = BestMatchExample =>
                  /\ ui_live[2] = [fn |-> "success",
                                   text |-> SrcA \o <<"U+FF08", "p", ".", "3",
                                                      "U+FF09">>,
                                   icon |-> DOC_SOURCE_ICON]
                  /\ [i \in 1..Len(subs) |-> subs[i].source] = <<SrcB>>

\* the best-match example has been shaped in search mode
C2_Witness ==
    /\ SearchMatch
    /\ pc = "shown"
    /\ llm_response.context = BestMatchExample
    /\ Len(ui_live) = 4

\* C3: a no-match outcome is a text-only payload: in search mode (empty
\* retrieval result or sentinel answer) it holds only the mode tag, the fixed
\* no-documents-found message and the no-file flag; in inquiry mode (sentinel
\* answer) it holds only the mode tag and the answer verbatim, whatever was
\* retrieved.  In both cases the call returns its payload after showing the
\* one text.
C3_NoMatchIsTextOnly ==
    /\ ( /\ Shaped
         /\ content.mode = ANSWER_MODE_1
         /\ \/ llm_response.context = << >>
            \/ llm_response.answer = NO_DOC_MATCH_ANSWER ) =>
          /\ DOMAIN content = {"mode", "answer", "no_file_path_flg"}
          /\ content.answer = NO_DOC_MATCH_MESSAGE
          /\ content.no_file_path_flg = TRUE
          /\ ui_live = <<Markdown(NO_DOC_MATCH_MESSAGE)>>
    /\ ( /\ Shaped
         /\ content.mode = ANSWER_MODE_2
         /\ llm_response.answer = INQUIRY_NO_MATCH_ANSWER ) =>
          /\ DOMAIN content = {"mode", "answer"}
          /\ content.answer = llm_response.answer
          /\ ui_live = <<Markdown(llm_response.answer)>>

\* an inquiry turn answered with the sentinel although passages were retrieved
C3_Witness ==
    /\ pc = "shown"
    /\ content.mode = ANSWER_MODE_2
    /\ llm_response.answer = INQUIRY_NO_MATCH_ANSWER
    /\ Len(llm_response.context) >= 2
    /\ DOMAIN content = {"mode", "answer"}

\* C5: the st.* calls display_conversation_log makes for a logged assistant
\* turn (texts, citation strings, icons) are the calls made when the turn was
\* live.
C5_ReplayEqualsLive ==
    pc = "replayed" => ui_replay[Len(session_state.messages)] = ui_live

\* an inquiry turn citing the web PDF with a page has been replayed after the
\* user switched to search mode
C5_Witness ==
    /\ pc = "replayed"
    /\ mode = ANSWER_MODE_1
    /\ content.mode = ANSWER_MODE_2
    /\ "file_info_list" \in DOMAIN content
    /\ \E i \in 1..Len(content.file_info_list) :
          content.file_info_list[i]
             = SrcC \o <<"U+FF08", "p", ".", "1", "U+FF09">>
    /\ \E i \in 1..Len(ui_replay[2]) :
          /\ ui_replay[2][i].fn = "info"
          /\ ui_replay[2][i].icon = LINK_SOURCE_ICON

-----------------------------------------------------------------------------
(* initialize.py: file loading                                              *)

\* os.path.splitext(path)[1]: from the last dot of the last component, unless
\* only dots precede it there
SplitExt(path) ==
    LET sep == RFind(path, "/")
        dot == RFind(path, ".")
    IN  IF dot > sep /\ \E k \in (sep + 1)..(dot - 1) : path[k] # "."
        THEN SubSeq(path, dot, Len(path))
        ELSE << >>

\* os.path.basename(path)
Basename(path) == SubSeq(path, RFind(path, "/") + 1, Len(path))

\* os.path.join(path, name)
PathJoin(path, name) == path \o <<"/">> \o name

\* "U+793E U+54E1 U+540D U+7C3F .csv", the staff directory's file name
STAFF_CSV == <<"U+793E", "U+54E1", "U+540D", "U+7C3F", ".", "c", "s", "v">>

COL_DEPT == "U+90E8U+7F72"

COL_NAME == "U+6C0FU+540D"

COL_TITLE == "U+5F79U+8077"

COL_MAIL == "U+30E1U+30FCU+30EB"

\* r.get(column, '')
RowGet(r, column) == IF column \in DOMAIN r THEN r[column] ELSE ""

\* the f-string of one row
StaffLine(r) ==
    <<"U+90E8U+7F72:", RowGet(r, COL_DEPT),
      " U+6C0FU+540D:", RowGet(r, COL_NAME),
      " U+5F79U+8077:", RowGet(r, COL_TITLE),
      " U+30E1U+30FCU+30EB:", RowGet(r, COL_MAIL)>>

\* "\n".join(lines)
RECURSIVE JoinLines(_)
JoinLines(lines) ==
    IF lines = << >> THEN << >>
    ELSE IF Len(lines) = 1 THEN lines[1]
    ELSE lines[1] \o <<"\n">> \o JoinLines(Tail(lines))

\* faulty variant: one Document per row
load_staff_csv_per_row(csv_path, rows) ==
    [i \in 1..Len(rows) |->
        [page_content |-> StaffLine(rows[i]),
         metadata |-> [source |-> csv_path, kind |-> <<"merged_csv">>]]]

\* _load_and_merge_staff_csv
load_and_merge_staff_csv(csv_path, rows) ==
    LET lines == [i \in 1..Len(rows) |-> StaffLine(rows[i])]
    IN  <<[page_content |-> JoinLines(lines),
           metadata |-> [source |-> csv_path, kind |-> <<"merged_csv">>]]>>

\* PyPDFLoader(path).load(): one Document per page, page zero-based
PyPDFLoader(path, units) ==
    [i \in 1..Len(units) |->
        [page_content |-> <<"page">>,
         metadata |-> [source |-> path, page |-> i - 1]]]

\* CSVLoader(path).load(): one Document per row
CSVLoader(path, units) ==
    [i \in 1..Len(units) |->
        [page_content |-> <<"row">>,
         metadata |-> [source |-> path, row |-> i - 1]]]

\* Docx2txtLoader(path).load() and TextLoader(path).load(): one Document
WholeFileLoader(path) ==
    <<[page_content |-> <<"text">>, metadata |-> [source |-> path]]>>

\* file_load: docs_all after the call
file_load(path, units, docs) ==
    LET ext   == Lower(SplitExt(path))
        fname == Basename(path)
    IN  CASE ext = <<".", "p", "d", "f">> ->
                docs \o PyPDFLoader(path, units)
          [] ext = <<".", "d", "o", "c", "x">> ->
                docs \o WholeFileLoader(path)
          [] ext = <<".", "c", "s", "v">> ->
                IF fname = STAFF_CSV
                THEN docs \o load_and_merge_staff_csv(path, units)
                ELSE docs \o CSVLoader(path, units)
          [] ext = <<".", "t", "x", "t">> ->
                docs \o WholeFileLoader(path)
          [] OTHER -> docs

\* the extensions for which file_load opens the file
OpensFile(path) ==
    Lower(SplitExt(path)) \in
        { <<".", "p", "d", "f">>, <<".", "d", "o", "c", "x">>,
          <<".", "c", "s", "v">>, <<".", "t", "x", "t">> }

-----------------------------------------------------------------------------
(* One call of file_load (SpecLoad)                                         *)

MaxRows == 3

DataDir == <<"d", "a", "t", "a">>

LoadPaths ==
    { PathJoin(DataDir, STAFF_CSV),
      STAFF_CSV,
      PathJoin(DataDir, <<"U+793E", "U+54E1", "U+540D", "U+7C3F",
                          ".", "C", "S", "V">>),
      PathJoin(DataDir, <<"x", "U+793E", "U+54E1", "U+540D", "U+7C3F",
                          ".", "c", "s", "v">>),
      PathJoin(DataDir, <<"o", ".", "c", "s", "v">>),
      PathJoin(DataDir, <<"a", ".", "p", "d", "f">>),
      PathJoin(DataDir, <<"b", ".", "d", "o", "c", "x">>),
      PathJoin(DataDir, <<"c", ".", "t", "x", "t">>),
      PathJoin(DataDir, <<"e", ".", "b", "i", "n">>),
      PathJoin(DataDir, <<".", "c", "s", "v">>) }

Row(dept, name, title) ==
    (COL_DEPT :> dept) @@ (COL_NAME :> name) @@ (COL_TITLE :> title)

Rows ==
    { Row("hr", "sato", "lead") @@ (COL_MAIL :> "sato@x"),
      Row("it", "abe", "staff") @@ (COL_MAIL :> "abe@x"),
      Row("hr", "ono", "staff") }

UnitSeqs == UNION {[1..n -> Rows] : n \in 0..MaxRows}

PriorDocs ==
    { << >>,
      <<[page_content |-> <<"text">>,
         metadata |-> [source |-> PathJoin(DataDir, <<"z", ".", "t", "x", "t">>)]]>> }

LoadInit ==
    /\ l_pc = "start"
    /\ l_file \in [path : LoadPaths, units : UnitSeqs]
    /\ l_before \in PriorDocs
    /\ docs_all = l_before
    /\ FmtIdle
    /\ ShapeIdle
    /\ SessIdle

\* file_load(path, docs_all) returns
FileLoadCall ==
    /\ l_pc = "start"
    /\ docs_all' = file_load(l_file.path, l_file.units, docs_all)
    /\ l_pc' = "done"
    /\ UNCHANGED <<l_file, l_before, fmtVars, shapeVars, session_state,
                   sessVars>>

\* a loader cannot read the file: the exception leaves file_load
FileLoadRaises ==
    /\ l_pc = "start"
    /\ OpensFile(l_file.path)
    /\ l_pc' = "raised"
    /\ UNCHANGED <<l_file, l_before, docs_all, fmtVars, shapeVars,
                   session_state, sessVars>>

LoadNext == FileLoadCall \/ FileLoadRaises

SpecLoad == LoadInit /\ [][LoadNext]_vars

\* the path names a file called exactly STAFF_CSV
NamedStaffCsv(path) ==
    /\ EndsWith(path, STAFF_CSV)
    /\ \/ Len(path) = Len(STAFF_CSV)
       \/ path[Len(path) - Len(STAFF_CSV)] = "/"

\* the path names a file "<stem>.csv", the extension in any letter case
NamedCsv(path) ==
    /\ \E e \in {<<".", c, s2, v>> : c \in {"c", "C"}, s2 \in {"s", "S"},
                                     v \in {"v", "V"}} : EndsWith(path, e)
    /\ Len(path) >= 5
    /\ path[Len(path) - 4] # "/"

\* C10: file_load of the staff-directory CSV adds exactly 1 Document for any
\* number N of rows; its content is one formatted line per row in row order
\* (8 pieces per line, lines separated by a newline) and its metadata is the
\* file path as source and kind=merged_csv; any other .csv file adds one
\* Document per row.
C10_StaffCsvIsOneDocument ==
    (l_pc = "done" /\ NamedCsv(l_file.path)) =>
        LET n == Len(l_file.units)
            k == Len(l_before)
        IN  /\ SubSeq(docs_all, 1, k) = l_before
            /\ NamedStaffCsv(l_file.path) =>
                  /\ Len(docs_all) = k + 1
                  /\ docs_all[k + 1].metadata
                        = [source |-> l_file.path, kind |-> <<"merged_csv">>]
                  /\ Len(docs_all[k + 1].page_content)
                        = IF n = 0 THEN 0 ELSE 9 * n - 1
                  /\ \A i \in 1..n :
                        /\ SubSeq(docs_all[k + 1].page_content,
                                  9 * (i - 1) + 1, 9 * (i - 1) + 8)
                              = StaffLine(l_file.units[i])
                        /\ i < n =>
                              docs_all[k + 1].page_content[9 * i] = "\n"
            /\ ~NamedStaffCsv(l_file.path) =>
                  /\ Len(docs_all) = k + n
                  /\ \A i \in 1..n :
                        docs_all[k + i].metadata.source = l_file.path

\* the staff CSV with three rows has been loaded after an earlier document
C10_Witness ==
    /\ l_pc = "done"
    /\ l_file.path = PathJoin(DataDir, STAFF_CSV)
    /\ Len(l_file.units) = 3
    /\ Len(l_before) = 1
    /\ Len(docs_all) = 2

-----------------------------------------------------------------------------
(* initialize.py: the session and the retriever                             *)
(*                                                                         *)
(* As shipped, initialize.py uses ct on line 25 before importing it on     *)
(* line 36, and initialize_retriever names CharacterTextSplitter on line   *)
(* 123, which the module never imports: the chunking stage of the shipped  *)
(* file always raises NameError.  The model lets every stage that can      *)
(* raise either raise or complete, so each behaviour of the shipped file   *)
(* is a behaviour of the model, and so are the behaviours with the names   *)
(* bound.                                                                  *)

TOP_K == 5

MaxInitCalls == 3

MaxTurns == 2

\* st.session_state.key = value
Put(ss, key, value) ==
    [x \in DOMAIN ss \cup {key} |-> IF x = key THEN value ELSE ss[x]]

\* the characters cp932 cannot encode
Cp932Encodable(c) == c # "U+1F600"

RECURSIVE DropUnencodable(_)
DropUnencodable(str) ==
    IF str = << >> THEN << >>
    ELSE (IF Cp932Encodable(Head(str)) THEN <<Head(str)>> ELSE << >>)
         \o DropUnencodable(Tail(str))

\* adjust_string, for a str: NFC leaves the characters of the model as they
\* are, encode("cp932", "ignore") drops what cp932 lacks
adjust_string(str, plat) ==
    IF StartsWith(plat, "win") THEN DropUnencodable(str) ELSE str

\* the metadata values that are not str (adjust_string returns them as is)
IntKeys == {"page", "row"}

\* initialize_retriever, step 2, for one Document
AdjustDoc(doc, plat) ==
    [page_content |-> adjust_string(doc.page_content, plat),
     metadata |-> [key \in DOMAIN doc.metadata |->
                      IF key \in IntKeys THEN doc.metadata[key]
                      ELSE adjust_string(doc.metadata[key], plat)]]

\* ct.RAG_TOP_FOLDER_PATH: the folder and what it holds, in listing order
StaffRows ==
    <<Row("hr", "sato", "lead") @@ (COL_MAIL :> "sato@x"),
      Row("it", "abe", "staff") @@ (COL_MAIL :> "abe@x")>>

File(name, units) == [name |-> name, dir |-> FALSE, units |-> units]

Dir(name, children) == [name |-> name, dir |-> TRUE, children |-> children]

RagTree ==
    Dir(DataDir,
        <<File(STAFF_CSV, StaffRows),
          File(<<"e", ".", "b", "i", "n">>, << >>),
          Dir(<<"s", "u", "b">>,
              <<File(<<"a", ".", "P", "D", "F">>, StaffRows),
                File(<<"c", ".", "t", "x", "t">>, << >>)>>)>>)

\* ct.WEB_URL_LOAD_TARGETS
WEB_URL_LOAD_TARGETS == <<HttpsScheme \o <<"w">>>>

\* recursive_file_check(path, docs_all), path naming `node`; `bad` are the
\* paths whose loader raises; the result is [raised, docs]
RECURSIVE recursive_file_check(_, _, _, _), CheckChildren(_, _, _, _)
recursive_file_check(path, node, acc, bad) ==
    IF acc.raised THEN acc
    ELSE IF node.dir THEN CheckChildren(path, node.children, acc, bad)
    ELSE IF path \in bad /\ OpensFile(path) THEN [acc EXCEPT !.raised = TRUE]
    ELSE [acc EXCEPT !.docs = file_load(path, node.units, acc.docs)]

\* recursive_file_check: for name in os.listdir(path)
CheckChildren(path, children, acc, bad) ==
    IF children = << >> THEN acc
    ELSE CheckChildren(
             path, Tail(children),
             recursive_file_check(PathJoin(path, Head(children).name),
                                  Head(children), acc, bad),
             bad)

\* load_data_sources: for web_url in ct.WEB_URL_LOAD_TARGETS
RECURSIVE LoadWeb(_, _, _)
LoadWeb(urls, acc, bad) ==
    IF urls = << >> \/ acc.raised THEN acc
    ELSE IF Head(urls) \in bad THEN [acc EXCEPT !.raised = TRUE]
    ELSE LoadWeb(Tail(urls),
                 [acc EXCEPT !.docs = @ \o WholeFileLoader(Head(urls))],
                 bad)

\* keeps the Documents whose source is not in `bad`
RECURSIVE DropSources(_, _)
DropSources(docs, bad) ==
    IF docs = << >> THEN << >>
    ELSE (IF Head(docs).metadata.source \in bad THEN << >> ELSE <<Head(docs)>>)
         \o DropSources(Tail(docs), bad)

\* faulty variant: a source that cannot be read is skipped and loading goes on
load_skipping_unreadable(bad) ==
    LET all == LoadWeb(WEB_URL_LOAD_TARGETS,
                       recursive_file_check(DataDir, RagTree,
                           [raised |-> FALSE, docs |-> << >>], {}),
                       {})
    IN  [raised |-> FALSE, docs |-> DropSources(all.docs, bad)]

\* load_data_sources: [raised, docs]
load_data_sources(bad) ==
    LoadWeb(WEB_URL_LOAD_TARGETS,
            recursive_file_check(DataDir, RagTree,
                                 [raised |-> FALSE, docs |-> << >>], bad),
            bad)

\* text_splitter.split_documents: the passages keep the metadata of their
\* Document; nothing downstream reads their text
split_documents(docs) == [i \in 1..Len(docs) |-> docs[i].metadata]

\* faulty variant: initialize_session_state without its test
session_state_always_reset(ss) ==
    Put(Put(ss, "messages", << >>), "chat_history", << >>)

\* initialize_session_state
initialize_session_state(ss) ==
    IF "messages" \notin DOMAIN ss
    THEN Put(Put(ss, "messages", << >>), "chat_history", << >>)
    ELSE ss

\* initialize_session_id
initialize_session_id(ss) ==
    IF "session_id" \notin DOMAIN ss
    THEN Put(ss, "session_id", <<"uuid4">>)
    ELSE ss

\* the stages of initialize_retriever after the early return:
\* [ss, raised, loads, builds]
BuildRetriever(ss, bad, fail, plat, nloads, nbuilds) ==
    LET loaded == load_data_sources(bad)
        docs   == [i \in 1..Len(loaded.docs) |-> AdjustDoc(loaded.docs[i], plat)]
        out(e) == [ss |-> ss, raised |-> e, loads |-> nloads + 1,
                   builds |-> nbuilds]
    IN  IF loaded.raised THEN out("load_data_sources")
        ELSE IF fail = "OpenAIEmbeddings" THEN out(fail)
        ELSE IF fail = "split_documents" THEN out(fail)
        ELSE IF fail = "Chroma.from_documents" THEN out(fail)
        ELSE [ss |-> Put(ss, "retriever",
                         [indexed |-> split_documents(docs),
                          k |-> TOP_K,
                          serial |-> nbuilds + 1]),
              raised |-> "none",
              loads |-> nloads + 1,
              builds |-> nbuilds + 1]

\* faulty variant: initialize_retriever without its early return
initialize_retriever_no_guard(ss, bad, fail, plat, nloads, nbuilds) ==
    BuildRetriever(ss, bad, fail, plat, nloads, nbuilds)

\* initialize_retriever: [ss, raised, loads, builds]
initialize_retriever(ss, bad, fail, plat, nloads, nbuilds) ==
    IF "retriever" \in DOMAIN ss
    THEN [ss |-> ss, raised |-> "none", loads |-> nloads, builds |-> nbuilds]
    ELSE BuildRetriever(ss, bad, fail, plat, nloads, nbuilds)

\* HumanMessage(content=chat_message)
HumanMessage(text) == [type |-> "human", content |-> text]

\* get_llm_response, line 90, after chain.invoke returned `resp`
extend_chat_history(ss, message, resp) ==
    [ss EXCEPT !.chat_history = @ \o <<HumanMessage(message), resp.answer>>]

-----------------------------------------------------------------------------
(* The session: page reruns and user turns (Spec)                           *)

\* every source load_data_sources reads
AllSources ==
    LET all == load_data_sources({})
    IN  {all.docs[i].metadata.source : i \in 1..Len(all.docs)}

StageFailures ==
    {"none", "OpenAIEmbeddings", "split_documents", "Chroma.from_documents"}

\* what the services do during one build: one source cannot be read, or one
\* of the later stages raises, or nothing fails
BuildEnvs ==
    {[bad |-> {}, fail |-> f] : f \in StageFailures}
    \cup {[bad |-> {src}, fail |-> "none"] : src \in AllSources}

\* retriever.invoke: at most k passages, the best match first
Retrievals(retriever) ==
    LET n == IF Len(retriever.indexed) < retriever.k
             THEN Len(retriever.indexed) ELSE retriever.k
    IN  {<< >>, SubSeq(retriever.indexed, 1, n)}

Utterances == {<<"q1">>, <<"q2">>}

Init ==
    /\ session_state = << >>
    /\ platform \in {"linux", "win32"}
    /\ logger_handlers = FALSE
    /\ last_call = "none"
    /\ raised = "none"
    /\ init_calls = 0
    /\ loads = 0
    /\ builds = 0
    /\ pc = "idle"
    /\ mode \in {ANSWER_MODE_1, ANSWER_MODE_2}
    /\ chat_message = << >>
    /\ llm_response = [context |-> << >>, answer |-> << >>]
    /\ ui_live = << >>
    /\ content = [mode |-> "none"]
    /\ ui_replay = << >>
    /\ FmtIdle
    /\ LoadIdle

\* initialize(): session state, session id, logger, retriever
Initialize ==
    /\ init_calls < MaxInitCalls
    /\ \E env \in BuildEnvs :
          LET ss1 == initialize_session_id(
                         initialize_session_state(session_state))
              r   == initialize_retriever(ss1, env.bad, env.fail, platform,
                                          loads, builds)
          IN  /\ session_state' = r.ss
              /\ raised' = r.raised
              /\ loads' = r.loads
              /\ builds' = r.builds
    /\ logger_handlers' = TRUE
    /\ last_call' = "initialize"
    /\ init_calls' = init_calls + 1
    /\ UNCHANGED <<platform, shapeVars, fmtVars, loadVars>>

\* initialize_retriever() called on its own
InitializeRetriever ==
    /\ init_calls < MaxInitCalls
    /\ \E env \in BuildEnvs :
          LET r == initialize_retriever(session_state, env.bad, env.fail,
                                        platform, loads, builds)
          IN  /\ session_state' = r.ss
              /\ raised' = r.raised
              /\ loads' = r.loads
              /\ builds' = r.builds
    /\ last_call' = "initialize_retriever"
    /\ init_calls' = init_calls + 1
    /\ UNCHANGED <<platform, logger_handlers, shapeVars, fmtVars, loadVars>>

\* the user picks the other mode in the sidebar
SelectMode ==
    /\ mode' \in {ANSWER_MODE_1, ANSWER_MODE_2}
    /\ mode' # mode
    /\ last_call' = "select_mode"
    /\ raised' = "none"
    /\ UNCHANGED <<pc, chat_message, llm_response, ui_live, content,
                   ui_replay, session_state, platform, logger_handlers,
                   init_calls, loads, builds, fmtVars, loadVars>>

\* get_llm_response(chat_message): chain.invoke returns
GetLlmResponse ==
    /\ "retriever" \in DOMAIN session_state
    /\ "chat_history" \in DOMAIN session_state
    /\ Len(session_state.chat_history) < 2 * MaxTurns
    /\ \E message \in Utterances, answer \in Answers,
          ctx \in Retrievals(session_state.retriever) :
          LET resp == [context |-> ctx, answer |-> answer]
          IN  /\ chat_message' = message
              /\ llm_response' = resp
              /\ session_state' =
                    extend_chat_history(session_state, message, resp)
    /\ last_call' = "get_llm_response"
    /\ raised' = "none"
    /\ UNCHANGED <<pc, mode, ui_live, content, ui_replay, platform,
                   logger_handlers, init_calls, loads, builds, fmtVars,
                   loadVars>>

\* get_llm_response(chat_message): the retriever or the history is missing,
\* or chain.invoke raises; line 90 is not reached
GetLlmResponseRaises ==
    /\ \E message \in Utterances : chat_message' = message
    /\ last_call' = "get_llm_response"
    /\ raised' = IF /\ "retriever" \in DOMAIN session_state
                    /\ "chat_history" \in DOMAIN session_state
                 THEN "chain.invoke" ELSE "AttributeError"
    /\ UNCHANGED <<pc, mode, llm_response, ui_live, content, ui_replay,
                   session_state, platform, logger_handlers, init_calls,
                   loads, builds, fmtVars, loadVars>>

Next ==
    \/ Initialize
    \/ InitializeRetriever
    \/ SelectMode
    \/ GetLlmResponse
    \/ GetLlmResponseRaises

Spec == Init /\ [][Next]_vars
-----------------------------------------------------------------------------
(* Properties of the session (Spec)                                         *)

HasRetriever == "retriever" \in DOMAIN session_state

\* C6: once a retriever is in the session state, no call reloads the data
\* sources, builds a vector store or replaces the stored retriever: the
\* retriever stays the one of the first successful build, and at most one
\* build succeeds in a session.
C6_RetrieverBuiltOnce ==
    /\ [](builds <= 1)
    /\ [][HasRetriever =>
             /\ "retriever" \in DOMAIN session_state'
             /\ session_state'.retriever = session_state.retriever
             /\ loads' = loads
             /\ builds' = builds]_vars

\* initialize() has returned without loading, after user turns, in a session
\* whose retriever was built by an earlier call
C6_Witness ==
    /\ HasRetriever
    /\ last_call = "initialize"
    /\ raised = "none"
    /\ init_calls > loads
    /\ builds = 1
    /\ Len(session_state.chat_history) >= 2

\* the sources under the data folder that have a loader, and the web page
ExpectedSources ==
    { PathJoin(DataDir, STAFF_CSV),
      PathJoin(PathJoin(DataDir, <<"s", "u", "b">>), <<"a", ".", "P", "D", "F">>),
      PathJoin(PathJoin(DataDir, <<"s", "u", "b">>), <<"c", ".", "t", "x", "t">>),
      HttpsScheme \o <<"w">> }

\* one merged staff document, two PDF pages, one text file, one web page
ExpectedPassages == 1 + 2 + 1 + 1

\* C7: when a stage of initialize_retriever raises, the session state holds
\* no retriever afterwards; a retriever in the session state indexes every
\* document of every source.
C7_NoPartialIndex ==
    /\ ( /\ last_call \in {"initialize", "initialize_retriever"}
         /\ raised # "none" ) => ~HasRetriever
    /\ HasRetriever =>
          LET ix == session_state.retriever.indexed
          IN  /\ Len(ix) = ExpectedPassages
              /\ \A src \in ExpectedSources :
                    \E i \in 1..Len(ix) : ix[i].source = src

\* the vector store raised during initialize(): the session has its
\* histories and its id, and no retriever
C7_Witness ==
    /\ last_call = "initialize"
    /\ raised = "Chroma.from_documents"
    /\ loads = 2
    /\ ~HasRetriever
    /\ "messages" \in DOMAIN session_state
    /\ "session_id" \in DOMAIN session_state

History(ss) == IF "chat_history" \in DOMAIN ss THEN ss.chat_history ELSE << >>

\* C8: the LLM-facing history is append-only: no call removes or changes an
\* entry; a get_llm_response call that returns appends exactly the user
\* utterance followed by the answer; a call that raises, and every other
\* call, leaves the history as it was.
C8_HistoryAppendOnly ==
    [][LET h  == History(session_state)
           h2 == History(session_state')
       IN  /\ "chat_history" \in DOMAIN session_state =>
                 "chat_history" \in DOMAIN session_state'
           /\ Len(h2) >= Len(h)
           /\ SubSeq(h2, 1, Len(h)) = h
           /\ IF last_call' = "get_llm_response" /\ raised' = "none"
              THEN /\ Len(h2) = Len(h) + 2
                   /\ h2[Len(h) + 1] = [type |-> "human",
                                        content |-> chat_message']
                   /\ h2[Len(h) + 2] = llm_response'.answer
              ELSE Len(h2) = Len(h)]_vars

\* after two answered turns and a rerun, a third turn's completion call
\* raised and the history still holds the four entries
C8_Witness ==
    /\ last_call = "get_llm_response"
    /\ raised = "chain.invoke"
    /\ init_calls >= 2
    /\ Len(History(session_state)) = 4
    /\ session_state.chat_history[1].type = "human"
    /\ session_state.chat_history[3].type = "human"

====
